---- MODULE Spec2Model ----
(***************************************************************************)
(* p5.PeakDetect (src/src/peakDetect.js): the constructor, update and      *)
(* onPeak, as a state machine.                                             *)
(*                                                                         *)
(* JavaScript Numbers that carry a fraction (energy, penergy, cutoff,      *)
(* threshold) are fixed-point decimals: the integer x stands for x/Scale.  *)
(* The literals 1.1 and 0.95 are the ratios 11/10 and 19/20; a product is  *)
(* rounded down to a multiple of 1/Scale.                                  *)
(***************************************************************************)
EXTENDS Integers, Sequences, FiniteSets, TLC

\* ------------------------------------------------------------------ numbers
Scale == 1000 * 1000

\* n/d as a fixed-point number
Fx(n, d) == (n * Scale) \div d

\* x * r for a ratio r = [num, den]
Mul(x, r) == (x * r.num) \div r.den

\* Math.max
Max(a, b) == IF a >= b THEN a ELSE b

\* the literal 1.1 of `nrg * 1.1`
Inflate == [num |-> 11, den |-> 10]

\* the literal 0.95 of `this.decayRate = 0.95`
DecayRateInit == [num |-> 19, den |-> 20]

\* the literal 255 of `getEnergy(...)/255`
ByteMax == 255

\* --------------------------------------------------------------- bounds
\* the history counters of updates saturate here
MaxCount == 8

\* the history counter of peaks saturates here
MaxPeaks == 3

\* ------------------------------------------------------- constructor inputs
Omitted == [given |-> FALSE, val |-> 0]
Arg(v) == [given |-> TRUE, val |-> v]

\* JavaScript `a || d`: d when a is undefined or 0
OrDefault(a, d) == IF a.given /\ a.val # 0 THEN a.val ELSE d

DefaultFramesPerPeak == 5
DefaultThreshold == Fx(25, 100)
DefaultFreq1 == 40
DefaultFreq2 == 20000

\* the calls `new p5.PeakDetect(freq1, freq2, threshold, framesPerPeak)` explored
CtorArgs ==
  { [freq1 |-> Omitted,  freq2 |-> Omitted,     threshold |-> Omitted,          framesPerPeak |-> Omitted],
    [freq1 |-> Arg(20),  freq2 |-> Arg(10000),  threshold |-> Arg(Fx(25, 100)), framesPerPeak |-> Arg(2)],
    [freq1 |-> Arg(0),   freq2 |-> Arg(0),      threshold |-> Arg(0),           framesPerPeak |-> Arg(0)],
    [freq1 |-> Arg(100), freq2 |-> Omitted,     threshold |-> Arg(Fx(1, 2)),    framesPerPeak |-> Arg(1)],
    [freq1 |-> Omitted,  freq2 |-> Arg(5000),   threshold |-> Arg(Fx(1, 2)),    framesPerPeak |-> Arg(-1)] }

\* what fftObject.getEnergy(f1, f2) returns (0..255 from a real analyzer; the
\* detector itself accepts any number): 0, 25.5, 76.5, 102, 127.5, 153,
\* and the out-of-range -25.5 and 306
FFTEnergies ==
  { Fx(-255, 10), 0, Fx(255, 10), Fx(765, 10), Fx(102, 1), Fx(1275, 10), Fx(153, 1), Fx(306, 1) }

\* the functions and payloads handed to onPeak
Callbacks == {"cb1", "cb2"}
Vals == {"v1", "v2"}

\* ------------------------------------------------------------------- state
VARIABLES
  framesPerPeak, framesSinceLastPeak, decayRate, threshold, cutoff,
  energy, penergy, isDetected, f1, f2,
  onPeakFn,   \* this._onPeak
  calls,      \* the callback invocations made during the latest call
  hist        \* history of the calls made so far (observation only)

config == <<framesPerPeak, decayRate, threshold, f1, f2>>
vars == <<framesPerPeak, framesSinceLastPeak, decayRate, threshold, cutoff,
          energy, penergy, isDetected, f1, f2, onPeakFn, calls, hist>>

\* `function() {}`
Noop == [kind |-> "noop"]

\* `function() { callback(self.energy, val); }`
Closure(callback, val) == [kind |-> "closure", callback |-> callback, val |-> val]

NoReg == [callback |-> "none", val |-> "none"]

\* this._onPeak was not called during the latest call
NotCalled == [called |-> FALSE]

\* the detector that `new p5.PeakDetect(a.freq1, a.freq2, a.threshold,
\* a.framesPerPeak)` leaves
Constructed(a) ==
  /\ framesPerPeak = OrDefault(a.framesPerPeak, DefaultFramesPerPeak)
  /\ framesSinceLastPeak = 0
  /\ decayRate = DecayRateInit
  /\ threshold = OrDefault(a.threshold, DefaultThreshold)
  /\ cutoff = 0
  /\ energy = 0
  /\ penergy = 0
  /\ isDetected = FALSE
  /\ f1 = OrDefault(a.freq1, DefaultFreq1)
  /\ f2 = OrDefault(a.freq2, DefaultFreq2)
  /\ onPeakFn = Noop
  /\ calls = << >>
  /\ hist = [ args |-> a,           \* the arguments of the constructor call
              op |-> "new",         \* the latest call: new, update or onPeak
              updates |-> 0,        \* update calls so far
              sample |-> 0,         \* the sample of the latest update, 0: none yet
              peaks |-> 0,          \* updates that fired a peak
              flat |-> TRUE,        \* all samples so far are equal
              sincePeak |-> -1,     \* updates since the latest peak, -1: none yet
              gap |-> -1,           \* sincePeak when the latest update began
              peakCutoff |-> 0,     \* cutoff left by the latest peak
              peakEnergy |-> 0,     \* the sample of the latest peak
              prevPeak |-> 0,       \* peakEnergy when the latest update began
              script |-> 0,         \* samples of Script matched since construction
              seen |-> NotCalled,   \* the detector as this._onPeak() found it
              reg |-> NoReg,        \* arguments of the latest onPeak call
              old |-> "none" ]      \* the callback that call replaced

Init == \E a \in CtorArgs : Constructed(a)

\* ------------------------------------------------------------------ update
\* IsPeak without the test against threshold
IsPeakNoFloor(nrg) == nrg > cutoff /\ nrg - penergy > 0

\* IsPeak with a level test in place of the rising edge
IsPeakNoEdge(nrg) == nrg > cutoff /\ nrg > threshold /\ nrg - penergy >= 0

\* `nrg > this.cutoff && nrg > this.threshold && nrg-this.penergy > 0`
IsPeak(nrg) == nrg > cutoff /\ nrg > threshold /\ nrg - penergy > 0

\* Debounce from the previous sample
DebouncePrev(nrg) == Mul(penergy, Inflate)

\* Debounce without the inflation
DebounceFlat(nrg) == nrg

\* Debounce with the factor 1.2
DebounceMore(nrg) == Mul(nrg, [num |-> 12, den |-> 10])

\* `this.cutoff = nrg * 1.1`
Debounce(nrg) == Mul(nrg, Inflate)

\* InHold with < in place of <=
InHoldStrict == framesSinceLastPeak < framesPerPeak

\* `this.framesSinceLastPeak <= this.framesPerPeak`
InHold == framesSinceLastPeak <= framesPerPeak

\* NextFrames that goes on counting past the hold window
NextFramesNoCap(peak) == IF peak THEN 0 ELSE framesSinceLastPeak + 1

\* NextFrames without the reset on a peak
NextFramesNoReset(peak) ==
  IF InHold THEN framesSinceLastPeak + 1 ELSE framesSinceLastPeak

\* `this.framesSinceLastPeak = 0` on a peak, `this.framesSinceLastPeak++` in
\* the hold window, otherwise left alone
NextFrames(peak) ==
  IF peak THEN 0
  ELSE IF InHold THEN framesSinceLastPeak + 1
  ELSE framesSinceLastPeak

\* Decay that clamps but never lowers the cutoff
DecayStuck(c) == Max(c, threshold)

\* Decay with Math.min in place of Math.max
DecayClampMin(c) ==
  IF Mul(c, decayRate) <= threshold THEN Mul(c, decayRate) ELSE threshold

\* Decay without the clamp at threshold
DecayNoClamp(c) == Mul(c, decayRate)

\* `this.cutoff *= this.decayRate; this.cutoff = Math.max(this.cutoff, this.threshold)`
Decay(c) == Max(Mul(c, decayRate), threshold)

\* CallOnPeak handing the previous sample to the callback
CallOnPeakPrev(fn, e) ==
  IF fn.kind = "noop" THEN << >>
  ELSE << [callback |-> fn.callback, energy |-> penergy, val |-> fn.val] >>

\* `this._onPeak()`: the callback invocations it makes, self.energy being e
CallOnPeak(fn, e) ==
  IF fn.kind = "noop" THEN << >>
  ELSE << [callback |-> fn.callback, energy |-> e, val |-> fn.val] >>

\* AtOnPeak with the call moved behind the assignments of the peak branch
AtOnPeakLate(nrg) ==
  [ called |-> TRUE, energy |-> nrg, isDetected |-> TRUE, cutoff |-> Debounce(nrg),
    framesSinceLastPeak |-> 0, penergy |-> penergy ]

\* the fields of the detector at `this._onPeak()` (line 132): energy was
\* assigned on line 128, the others are assigned on lines 133-147
AtOnPeak(nrg) ==
  [ called |-> TRUE, energy |-> nrg, isDetected |-> isDetected, cutoff |-> cutoff,
    framesSinceLastPeak |-> framesSinceLastPeak, penergy |-> penergy ]

\* n + 1, saturating at max
Sat(n, max) == IF n >= max THEN max ELSE n + 1

\* the energy sequence 0.1, 0.3, 0.5, 0.4, 0.6
Script == << Fx(1, 10), Fx(3, 10), Fx(5, 10), Fx(4, 10), Fx(6, 10) >>

NextScript(nrg) ==
  IF hist.script >= 0 /\ hist.script < Len(Script) /\ Script[hist.script + 1] = nrg
  THEN hist.script + 1 ELSE -1

\* update that refuses a getEnergy value outside 0..255
UpdateInRange(raw) ==
  LET nrg == raw \div ByteMax
      peak == IsPeak(nrg)
  IN /\ 0 <= raw /\ raw <= Fx(ByteMax, 1)
     /\ energy' = nrg
     /\ calls' = IF peak THEN CallOnPeak(onPeakFn, nrg) ELSE << >>
     /\ isDetected' = peak
     /\ cutoff' = IF peak THEN Debounce(nrg)
                  ELSE IF InHold THEN cutoff ELSE Decay(cutoff)
     /\ framesSinceLastPeak' = NextFrames(peak)
     /\ penergy' = nrg
     /\ hist' = [ hist EXCEPT
                  !.op = "update",
                  !.updates = Sat(@, MaxCount),
                  !.sample = nrg,
                  !.peaks = IF peak THEN Sat(@, MaxPeaks) ELSE @,
                  !.flat = @ /\ (hist.updates = 0 \/ nrg = hist.sample),
                  !.sincePeak = IF peak THEN 0 ELSE IF @ < 0 THEN @ ELSE Sat(@, MaxCount),
                  !.gap = hist.sincePeak,
                  !.peakCutoff = IF peak THEN cutoff' ELSE @,
                  !.peakEnergy = IF peak THEN nrg ELSE @,
                  !.prevPeak = hist.peakEnergy,
                  !.script = NextScript(nrg),
                  !.seen = IF peak THEN AtOnPeak(nrg) ELSE NotCalled ]
     /\ UNCHANGED <<config, onPeakFn>>

Update(raw) ==
  LET nrg == raw \div ByteMax
      peak == IsPeak(nrg)
  IN /\ energy' = nrg
     /\ calls' = IF peak THEN CallOnPeak(onPeakFn, nrg) ELSE << >>
     /\ isDetected' = peak
     /\ cutoff' = IF peak THEN Debounce(nrg)
                  ELSE IF InHold THEN cutoff ELSE Decay(cutoff)
     /\ framesSinceLastPeak' = NextFrames(peak)
     /\ penergy' = nrg
     /\ hist' = [ hist EXCEPT
                  !.op = "update",
                  !.updates = Sat(@, MaxCount),
                  !.sample = nrg,
                  !.peaks = IF peak THEN Sat(@, MaxPeaks) ELSE @,
                  !.flat = @ /\ (hist.updates = 0 \/ nrg = hist.sample),
                  !.sincePeak = IF peak THEN 0 ELSE IF @ < 0 THEN @ ELSE Sat(@, MaxCount),
                  !.gap = hist.sincePeak,
                  !.peakCutoff = IF peak THEN cutoff' ELSE @,
                  !.peakEnergy = IF peak THEN nrg ELSE @,
                  !.prevPeak = hist.peakEnergy,
                  !.script = NextScript(nrg),
                  !.seen = IF peak THEN AtOnPeak(nrg) ELSE NotCalled ]
     /\ UNCHANGED <<config, onPeakFn>>

\* ------------------------------------------------------------------ onPeak
\* onPeak that keeps an observer already registered
OnPeakKeepFirst(callback, val) ==
  /\ onPeakFn' = IF onPeakFn.kind = "noop" THEN Closure(callback, val) ELSE onPeakFn
  /\ calls' = << >>
  /\ hist' = [ hist EXCEPT !.op = "onPeak", !.reg = [callback |-> callback, val |-> val],
                           !.old = hist.reg.callback, !.seen = NotCalled ]
  /\ UNCHANGED <<config, framesSinceLastPeak, cutoff, energy, penergy, isDetected>>

\* onPeak that also clears the detection flag
OnPeakClearsFlag(callback, val) ==
  /\ onPeakFn' = Closure(callback, val)
  /\ isDetected' = FALSE
  /\ calls' = << >>
  /\ hist' = [ hist EXCEPT !.op = "onPeak", !.reg = [callback |-> callback, val |-> val],
                           !.old = hist.reg.callback, !.seen = NotCalled ]
  /\ UNCHANGED <<config, framesSinceLastPeak, cutoff, energy, penergy>>

\* `self._onPeak = function() { callback(self.energy, val); }`
OnPeak(callback, val) ==
  /\ onPeakFn' = Closure(callback, val)
  /\ calls' = << >>
  /\ hist' = [ hist EXCEPT !.op = "onPeak", !.reg = [callback |-> callback, val |-> val],
                           !.old = hist.reg.callback, !.seen = NotCalled ]
  /\ UNCHANGED <<config, framesSinceLastPeak, cutoff, energy, penergy, isDetected>>

Next ==
  \/ \E raw \in FFTEnergies : Update(raw)
  \/ \E callback \in Callbacks, val \in Vals : OnPeak(callback, val)

Spec == Init /\ [][Next]_vars

\* a step of update, whatever the sample
UpdateStep == \E raw \in FFTEnergies : Update(raw)

\* a step of onPeak, whatever the arguments
OnPeakStep == \E callback \in Callbacks, val \in Vals : OnPeak(callback, val)

\* the detector alone: a sketch that never calls onPeak
DetectorSpec == Init /\ [][UpdateStep]_vars

\* the same, the draw loop going on calling update for ever
LiveSpec == DetectorSpec /\ WF_vars(UpdateStep)

\* the constructor calls explored together with onPeak
ObserverCtorArgs ==
  { a \in CtorArgs : a.framesPerPeak = Arg(2) \/ a.framesPerPeak = Arg(-1) }

ObserverInit == \E a \in ObserverCtorArgs : Constructed(a)

\* update and onPeak in any order, on those detectors
ObserverSpec == ObserverInit /\ [][Next]_vars

\* ================================================================== claims

\* C1: an update leaves isDetected true if and only if its sample exceeds the
\* cutoff and the threshold as they were before the call and the sample of
\* the preceding update (0 before the first), whatever framesSinceLastPeak is.
C1_DetectedIffTripleCondition ==
  [][ UpdateStep =>
        ( isDetected' <=> ( /\ energy' > cutoff
                            /\ energy' > threshold
                            /\ energy' > hist.sample ) ) ]_vars

\* C1 witness: a peak fired inside the hold window of the peak before it.
C1_Witness ==
  /\ hist.op = "update" /\ isDetected
  /\ hist.gap >= 0 /\ hist.gap < framesPerPeak

\* C2 as stated: after any update, cutoff >= threshold.
C2_Original == hist.updates > 0 => cutoff >= threshold

\* C2 amended: after any update cutoff >= threshold, or cutoff is still its
\* initial 0, no peak has fired and at most framesPerPeak + 1 updates were made.
C2_CutoffAtLeastThresholdOrInitial ==
  hist.updates > 0 =>
    \/ cutoff >= threshold
    \/ cutoff = 0 /\ hist.peaks = 0 /\ hist.updates <= framesPerPeak + 1

\* C2 witness: a cutoff that decayed all the way down to the threshold after a peak.
C2_Witness ==
  /\ hist.peaks > 0 /\ cutoff = threshold
  /\ hist.sincePeak > framesPerPeak + 2

\* C3 as stated: after a peak the cutoff is unchanged for exactly
\* framesPerPeak non-peak updates, the next one being the first decay.
C3_Original ==
  hist.sincePeak >= 0 /\ framesPerPeak >= 0 =>
    /\ hist.sincePeak <= framesPerPeak => cutoff = hist.peakCutoff
    /\ hist.sincePeak = framesPerPeak + 1 =>
          cutoff = Max(Mul(hist.peakCutoff, DecayRateInit), threshold)

\* C3 amended: after a peak the cutoff is unchanged for exactly
\* framesPerPeak + 1 consecutive non-peak updates and the one after them is
\* the first to lower it; a non-peak update keeps the cutoff while
\* framesSinceLastPeak <= framesPerPeak and otherwise sets it to
\* max(cutoff * 0.95, threshold).
C3_HoldThenDecay ==
  /\ [] ( hist.sincePeak >= 0 /\ hist.sincePeak <= framesPerPeak + 1
            => cutoff = hist.peakCutoff )
  /\ [] ( hist.sincePeak >= 1 /\ hist.sincePeak = framesPerPeak + 2
            => /\ cutoff = Max(Mul(hist.peakCutoff, DecayRateInit), threshold)
               /\ cutoff < hist.peakCutoff )
  /\ [][ UpdateStep /\ ~isDetected' =>
           cutoff' = IF framesSinceLastPeak <= framesPerPeak THEN cutoff
                     ELSE Max(Mul(cutoff, DecayRateInit), threshold) ]_vars

\* C3 witness: the first decay after a peak, framesPerPeak + 2 updates later.
C3_Witness ==
  /\ hist.sincePeak = framesPerPeak + 2 /\ framesPerPeak >= 1
  /\ cutoff < hist.peakCutoff /\ cutoff > threshold

\* C4 as stated: after an update that detects a peak, none of the following
\* framesPerPeak updates detects one.
C4_NoPeakWithinFramesPerPeak ==
  hist.op = "update" /\ isDetected /\ hist.gap >= 0 => hist.gap >= framesPerPeak

\* C5: right after an update that fired a peak, cutoff is 1.1 times the
\* sample of that update, which is also what energy and penergy hold.
C5_CutoffIsInflatedEnergy ==
  hist.op = "update" /\ isDetected =>
    /\ cutoff = Mul(hist.sample, Inflate)
    /\ energy = hist.sample
    /\ penergy = hist.sample

\* C5 witness: a peak at 0.5 that followed a different sample left cutoff 0.55.
C5_Witness ==
  /\ hist.op = "update" /\ isDetected
  /\ hist.sample = Fx(5, 10) /\ cutoff = Fx(55, 100) /\ hist.script = 3

\* C6: a fresh detector fed one constant sample above the threshold fires
\* exactly one peak, on the first update, and none on any later update; and
\* an update whose sample equals the sample of the update before it never
\* fires a peak.
C6_FlatStreamFiresOnce ==
  /\ [] ( hist.updates >= 1 /\ hist.flat /\ hist.sample > threshold
            => /\ hist.peaks = 1
               /\ (isDetected <=> hist.updates = 1) )
  /\ [][ UpdateStep /\ hist.updates >= 1 /\ energy' = hist.sample
           => ~isDetected' ]_vars

\* C6 witness: a constant stream above the threshold, still without a second
\* peak after the cutoff has decayed below the sample.
C6_Witness ==
  /\ hist.op = "update" /\ hist.flat /\ hist.updates >= 2
  /\ hist.sample > threshold /\ cutoff < hist.sample
  /\ ~isDetected /\ hist.peaks = 1

\* the detector of C7: threshold 0.25, framesPerPeak 2
C7_Detector == threshold = Fx(25, 100) /\ framesPerPeak = 2

\* C7 as stated: on 0.1, 0.3, 0.5, 0.4, 0.6 no peak fires at indices 0 and 1,
\* so that the peak at index 2 meets the cutoff 0 and leaves 0.55; index 3
\* fires none, index 4 fires.
C7_Original ==
  C7_Detector =>
    /\ hist.script = 1 => ~isDetected /\ cutoff = 0
    /\ hist.script = 2 => ~isDetected /\ cutoff = 0
    /\ hist.script = 3 => isDetected /\ cutoff = Fx(55, 100)
    /\ hist.script = 4 => ~isDetected
    /\ hist.script = 5 => isDetected

\* C7 amended: index 0 fires no peak, index 1 (0.3) fires one and leaves
\* cutoff 0.33, index 2 (0.5) fires against that cutoff and leaves 0.55,
\* index 3 (0.4) fires none and keeps 0.55, index 4 (0.6) fires again.
C7_ScriptedPeaks ==
  C7_Detector =>
    /\ hist.script = 1 => ~isDetected /\ cutoff = 0
    /\ hist.script = 2 => isDetected /\ cutoff = Fx(33, 100)
    /\ hist.script = 3 => isDetected /\ cutoff = Fx(55, 100) /\ hist.peaks = 2
    /\ hist.script = 4 => ~isDetected /\ cutoff = Fx(55, 100)
    /\ hist.script = 5 => isDetected /\ hist.peaks = 3

\* C7 witness: the whole sequence was fed to that detector.
C7_Witness == C7_Detector /\ hist.script = 5 /\ hist.updates = 5

\* C8: an update that fires a peak invokes the registered observer exactly
\* once and an update that fires none never invokes it; the invocation gets
\* the sample of that update and the payload given to onPeak.
C8_ObserverOncePerPeak ==
  hist.op = "update" =>
    /\ Len(calls) = IF isDetected /\ hist.reg # NoReg THEN 1 ELSE 0
    /\ \A i \in 1..Len(calls) :
          calls[i].energy = hist.sample /\ calls[i].val = hist.reg.val

\* C8 witness: a peak, with an observer registered, on a sample that differs
\* from the previous one and from zero.
C8_Witness ==
  /\ hist.op = "update" /\ isDetected /\ Len(calls) = 1
  /\ calls[1].energy = Fx(6, 10) /\ hist.script = 5

\* C9: every invocation goes to the observer of the latest onPeak call, with
\* its payload; an observer registered before it is never invoked again.
C9_LatestObserverOnly ==
  \A i \in 1..Len(calls) :
    /\ hist.reg # NoReg
    /\ calls[i].callback = hist.reg.callback
    /\ calls[i].val = hist.reg.val
    /\ onPeakFn = Closure(hist.reg.callback, hist.reg.val)

\* C9 witness: cb2 replaced cb1 and a later peak, the third, invoked cb2.
C9_Witness ==
  /\ Len(calls) = 1 /\ calls[1].callback = "cb2" /\ calls[1].val = "v1"
  /\ hist.old = "cb1" /\ hist.peaks >= 3

\* C10: after any update of a detector with framesPerPeak >= 0,
\* framesSinceLastPeak is 0 if and only if that update fired a peak.
C10_FramesZeroIffPeak ==
  hist.op = "update" /\ framesPerPeak >= 0 =>
    ( framesSinceLastPeak = 0 <=> isDetected )

\* C10 witness: a peak that reset a counter which had run past framesPerPeak.
C10_Witness ==
  /\ hist.op = "update" /\ framesPerPeak >= 0
  /\ isDetected /\ framesSinceLastPeak = 0 /\ hist.gap > framesPerPeak

\* C11: always 0 <= framesSinceLastPeak <= framesPerPeak + 1; a non-peak
\* update adds one to it while it is <= framesPerPeak and afterwards holds it
\* at framesPerPeak + 1; it decreases only by the reset to 0 on a peak.
C11_FramesBoundedAndHeld ==
  /\ [] ( 0 <= framesSinceLastPeak /\ framesSinceLastPeak <= framesPerPeak + 1 )
  /\ [][ UpdateStep /\ ~isDetected' =>
           IF framesSinceLastPeak <= framesPerPeak
           THEN framesSinceLastPeak' = framesSinceLastPeak + 1
           ELSE /\ framesSinceLastPeak = framesPerPeak + 1
                /\ framesSinceLastPeak' = framesSinceLastPeak ]_vars
  /\ [][ framesSinceLastPeak' < framesSinceLastPeak =>
           isDetected' /\ framesSinceLastPeak' = 0 ]_vars

\* C11 witness: the counter held at framesPerPeak + 1 over several updates.
C11_Witness ==
  /\ hist.op = "update" /\ framesPerPeak >= 1
  /\ framesSinceLastPeak = framesPerPeak + 1
  /\ hist.sincePeak > framesPerPeak + 2

\* what a constructor argument leaves in its field when it is stored as it
\* is and the default d is used only when it is omitted
AsGiven(a, d) == IF a.given THEN a.val ELSE d

\* C12 as stated: each of freq1, freq2, threshold and framesPerPeak that the
\* caller supplies is stored as it is, a supplied 0 included; the defaults
\* 40, 20000, 0.25 and 5 are used only for an omitted argument.
C12_ArgumentsStoredAsGiven ==
  /\ f1 = AsGiven(hist.args.freq1, 40)
  /\ f2 = AsGiven(hist.args.freq2, 20000)
  /\ threshold = AsGiven(hist.args.threshold, Fx(25, 100))
  /\ framesPerPeak = AsGiven(hist.args.framesPerPeak, 5)

\* C14 as stated: with freq1 omitted the low bound of the band is 20 Hz.
C14_OmittedFreq1Is20 == ~hist.args.freq1.given => f1 = 20

\* C13: update is total: in every reachable state it accepts every sample,
\* the negative ones and those above 1 included, and completes; isDetected is
\* then true or false as the peak condition says.
C13_UpdateIsTotal ==
  /\ isDetected \in BOOLEAN
  /\ \A raw \in FFTEnergies : ENABLED Update(raw)
  /\ hist.op = "update" /\ (hist.sample < 0 \/ hist.sample > Scale) =>
        energy = hist.sample /\ penergy = hist.sample
        /\ (isDetected => hist.sample > threshold /\ cutoff = Mul(hist.sample, Inflate))

\* C13 witness: an update, not the first, took a sample above 1 and fired the
\* first peak on it.
C13_Witness ==
  /\ hist.op = "update" /\ hist.sample > Scale /\ isDetected
  /\ hist.updates >= 2 /\ hist.peaks = 1 /\ cutoff > Scale

\* C17: update changes none of threshold, framesPerPeak, decayRate, f1, f2
\* and the registered observer; onPeak changes the registered observer only
\* and leaves energy, penergy, cutoff, framesSinceLastPeak, isDetected and
\* the configuration as they were.
C17_FrameOfUpdateAndOnPeak ==
  /\ [][ UpdateStep =>
           UNCHANGED <<threshold, framesPerPeak, decayRate, f1, f2, onPeakFn>> ]_vars
  /\ [][ OnPeakStep =>
           UNCHANGED <<energy, penergy, cutoff, framesSinceLastPeak, isDetected,
                       threshold, framesPerPeak, decayRate, f1, f2>> ]_vars

\* C17 witness: onPeak was called between two updates, right after a peak,
\* and the detection flag and the inflated cutoff are still there.
C17_Witness ==
  /\ hist.op = "onPeak" /\ hist.old = "cb1" /\ hist.reg.callback = "cb2"
  /\ isDetected /\ hist.sincePeak = 0 /\ cutoff = Mul(energy, Inflate)

\* C19: with threshold > 0, cutoff is always 0 or >= threshold; it is 0
\* exactly while no peak has fired and no decay step has run (at most
\* framesPerPeak + 1 updates were made); once >= threshold it stays so.
C19_CutoffZeroOrAboveThreshold ==
  /\ [] ( threshold > 0 =>
            /\ cutoff = 0 \/ cutoff >= threshold
            /\ cutoff = 0 <=> (hist.peaks = 0 /\ hist.updates <= framesPerPeak + 1) )
  /\ [][ threshold > 0 /\ cutoff >= threshold => cutoff' >= threshold ]_vars

\* C19 witness: cutoff went from 0 to the threshold by a decay step, no peak
\* having fired.
C19_Witness ==
  /\ threshold > 0 /\ cutoff = threshold
  /\ hist.peaks = 0 /\ hist.updates = framesPerPeak + 2

\* cutoff c after k decay steps
RECURSIVE Decayed(_, _)
Decayed(c, k) ==
  IF k = 0 THEN c ELSE Decayed(Max(Mul(c, DecayRateInit), threshold), k - 1)

\* the decay steps run between the peak before the latest update and that
\* update, which came hist.gap + 1 updates after the peak
DecaySteps == IF hist.gap > framesPerPeak + 1 THEN hist.gap - framesPerPeak - 1 ELSE 0

\* C16: a peak that follows a peak of energy e > 0, with no peak in between,
\* within framesPerPeak + 2 updates has energy > 1.1 * e; a later one has
\* energy > max(threshold, 1.1 * e * 0.95^k), k being the number of decay
\* steps run since the earlier peak.
C16_NextPeakAboveInflatedCutoff ==
  hist.op = "update" /\ isDetected /\ hist.gap >= 0 /\ hist.gap < MaxCount
  /\ hist.prevPeak > 0 =>
    /\ hist.gap + 1 <= framesPerPeak + 2 =>
          hist.sample > Mul(hist.prevPeak, Inflate)
    /\ hist.gap + 1 > framesPerPeak + 2 =>
          /\ hist.sample > threshold
          /\ hist.sample > Decayed(Mul(hist.prevPeak, Inflate), DecaySteps)

\* C16 witness: after two decay steps a peak fired on a sample that is
\* below 1.1 times the earlier peak.
C16_Witness ==
  /\ hist.op = "update" /\ isDetected /\ hist.gap >= 0 /\ hist.gap < MaxCount
  /\ hist.prevPeak > 0 /\ DecaySteps = 2
  /\ hist.sample < Mul(hist.prevPeak, Inflate)

\* C18: when a peak-firing update invokes the observer, energy is already
\* the current sample while isDetected, cutoff, framesSinceLastPeak and
\* penergy are still what they were before the update; they change only
\* after the observer returned. So the peak condition still holds for the
\* same sample at that moment, as an observer re-entering update finds.
C18_ObserverSeesStateBeforeUpdate ==
  /\ [][ UpdateStep /\ isDetected' =>
           /\ hist'.seen.called
           /\ hist'.seen.energy = energy' /\ energy' = hist'.sample
           /\ hist'.seen.isDetected = isDetected
           /\ hist'.seen.cutoff = cutoff
           /\ hist'.seen.framesSinceLastPeak = framesSinceLastPeak
           /\ hist'.seen.penergy = penergy /\ penergy = hist.sample
           /\ cutoff' = Mul(energy', Inflate) /\ framesSinceLastPeak' = 0
           /\ penergy' = energy' ]_vars
  /\ [] ( hist.seen.called <=> (hist.op = "update" /\ isDetected) )
  /\ [] ( hist.seen.called =>
            /\ hist.seen.energy > hist.seen.cutoff
            /\ hist.seen.energy > threshold
            /\ hist.seen.energy - hist.seen.penergy > 0 )

\* C18 witness: the observer of a second peak found the flag of the peak
\* before it still set, the cutoff that peak left and the counter not reset.
C18_Witness ==
  /\ hist.seen.called /\ Len(calls) = 1
  /\ hist.seen.isDetected /\ hist.seen.cutoff = Mul(hist.prevPeak, Inflate)
  /\ hist.seen.cutoff # cutoff /\ hist.seen.penergy # penergy
  /\ hist.seen.framesSinceLastPeak = 0 /\ hist.gap = 0

\* C15: with threshold > 0, if from some update on no peak fires while
\* update goes on being called, then after finitely many updates cutoff
\* equals threshold; it stays there on every later non-peak update, and any
\* later sample that rises and exceeds threshold fires a peak.
C15_DecayReachesThreshold ==
  /\ <>[](threshold > 0 /\ ~isDetected) => <>[](cutoff = threshold)
  /\ [][ UpdateStep /\ threshold > 0 /\ cutoff = threshold /\ hist.updates > 0
         /\ ~isDetected' => cutoff' = threshold ]_vars
  /\ [][ UpdateStep /\ threshold > 0 /\ cutoff = threshold
         /\ energy' > threshold /\ energy' > hist.sample => isDetected' ]_vars

\* C15 witness: after a peak the cutoff has decayed down to the threshold and
\* a sample below the earlier peak fired the next peak.
C15_Witness ==
  /\ threshold > 0 /\ hist.op = "update" /\ isDetected
  /\ hist.seen.cutoff = threshold /\ hist.gap > framesPerPeak + 2
  /\ hist.prevPeak > 0 /\ hist.sample < hist.prevPeak

====
